---- MODULE Spec2Model ----
(***************************************************************************)
(* Repair-cost estimation of the inspection application (app.py):          *)
(* parse_cost turns a free-form cost string into a (low, high) pair and    *)
(* calculate_total_repairs sums the pairs of a list of defect records.     *)
(*                                                                         *)
(* A Python str is modelled as a sequence of one-character strings, a      *)
(* Python value as a record [type, chars], a defect dict as a record that  *)
(* may or may not have the field "cost".                                   *)
(***************************************************************************)
EXTENDS Integers, Sequences, FiniteSets, TLC

----------------------------------------------------------------------------
(* Bounds of the explored inputs *)

\* longest cost string handed to parse_cost directly
MaxLen == 5
\* longest cost string inside a defect record
MaxRecLen == 2
\* longest list of defect records
MaxDefects == 2
\* longest cost string typed into the report editor or returned by the AI
MaxEditLen == 1
\* most defect records in the draft of a session
MaxDraft == 2

----------------------------------------------------------------------------
(* Python values *)

Digits == {"0", "1", "2", "3", "4", "5", "6", "7", "8", "9"}

\* characters the direct parse_cost inputs are built from
Alphabet == {"N", "/", "A", ",", "0", "1", "2"}
\* characters the cost strings of defect records are built from
RecAlphabet == {"-", "1"}

None == [type |-> "NoneType", chars |-> <<>>]
Str(s) == [type |-> "str", chars |-> s]
NA == Str(<<"N", "/", "A">>)

\* the cost strings the source gives as examples
DocstringCost == Str(<<"$", "5", "0", "0", " ", "-", " ", "$", "1", ",", "2", "0", "0">>)
HelpTextCost == Str(<<"$", "5", "0", "0", " ", "-", " ", "$", "1", ",", "0", "0",
                    "0">>)
SampleCosts == {DocstringCost, HelpTextCost}

\* the cost strings of the contract's scenarios
QuantityCost == Str(<<"A", "p", "p", "r", "o", "x", " ", "2", " ", "x",
                      " ", "$", "3", "0", "0", " ", "p", "a", "n", "e",
                      "l", "s">>)
RangeCost == Str(<<"$", "1", "0", "0", " ", "-", " ", "$", "2", "0", "0">>)
SingleCost == Str(<<"$", "5", "0">>)
ScenarioCosts == {QuantityCost, RangeCost, SingleCost}

StrsOver(alphabet, n) == UNION {[1..k -> alphabet] : k \in 0..n}

\* values of a cost passed to parse_cost: any string, or None
CostValues == {None} \cup SampleCosts \cup ScenarioCosts
              \cup {Str(s) : s \in StrsOver(Alphabet, MaxLen)}

\* values of the cost field of a defect record
RecordCosts == {None, NA} \cup SampleCosts
               \cup {Str(s) : s \in StrsOver(RecAlphabet, MaxRecLen)}

\* defect records: the core reads only "cost", which may be absent
DefectRecords == {[defect_name |-> "d"]}
                 \cup {[defect_name |-> "d", cost |-> v] : v \in RecordCosts}

\* values the cost of a draft record takes: the text of the AI estimate
\* (response.text, a str or None), the "N/A" default, and what the text column
\* of the report editor holds (a str, or None for an empty cell)
EditorCosts == {None, NA} \cup SampleCosts
               \cup {Str(s) : s \in StrsOver(RecAlphabet, MaxEditLen)}

\* float('nan'), which pandas puts where a record has no value for a column
NaN == [type |-> "float", chars |-> <<>>]

\* the three records of the contract's aggregation scenario
ScenarioRecords == <<[defect_name |-> "d", cost |-> RangeCost],
                     [defect_name |-> "d", cost |-> SingleCost],
                     [defect_name |-> "d", cost |-> NA]>>

DefectLists == {ScenarioRecords}
               \cup UNION {[1..k -> DefectRecords] : k \in 0..MaxDefects}

\* variant: every object counts as true
truthy_AlwaysTrue(v) == TRUE

\* truth value of a Python object: None and "" are falsy
truthy(v) == IF v.type = "NoneType" THEN FALSE
             ELSE IF v.type = "str" THEN v.chars # <<>>
             ELSE TRUE

\* variant: the string is left as it is
replace_Keep(s, old) == s

\* variant: only the first occurrence is removed, as str.replace(old, '', 1)
replace_First(s, old) ==
    LET at == {k \in DOMAIN s : s[k] = old}
    IN  IF at = {} THEN s
        ELSE LET k == CHOOSE x \in at : \A y \in at : x <= y
             IN  SubSeq(s, 1, k - 1) \o SubSeq(s, k + 1, Len(s))

\* str.replace(old, ''), for a one-character old
replace(s, old) == SelectSeq(s, LAMBDA c : c # old)

\* re.findall(r'\d+', s): the maximal digit runs, left to right
RECURSIVE findall_scan(_, _, _, _)
findall_scan(s, k, cur, acc) ==
    IF k > Len(s)
    THEN IF cur = <<>> THEN acc ELSE Append(acc, cur)
    ELSE IF s[k] \in Digits
         THEN findall_scan(s, k + 1, Append(cur, s[k]), acc)
         ELSE findall_scan(s, k + 1, <<>>,
                           IF cur = <<>> THEN acc ELSE Append(acc, cur))

\* variant: only the digit runs that follow a "$", as re.findall(r'\$(\d+)', s)
RECURSIVE findall_dollar_scan(_, _, _, _)
findall_dollar_scan(s, k, cur, acc) ==
    IF k > Len(s)
    THEN IF cur = <<>> THEN acc ELSE Append(acc, cur)
    ELSE IF s[k] \in Digits
         THEN IF cur # <<>> \/ (k > 1 /\ s[k - 1] = "$")
              THEN findall_dollar_scan(s, k + 1, Append(cur, s[k]), acc)
              ELSE findall_dollar_scan(s, k + 1, <<>>, acc)
         ELSE findall_dollar_scan(s, k + 1, <<>>,
                                  IF cur = <<>> THEN acc ELSE Append(acc, cur))

findall_Dollar(s) == findall_dollar_scan(s, 1, <<>>, <<>>)

findall(s) == findall_scan(s, 1, <<>>, <<>>)

DigitVal(c) == CASE c = "0" -> 0 [] c = "1" -> 1 [] c = "2" -> 2
                 [] c = "3" -> 3 [] c = "4" -> 4 [] c = "5" -> 5
                 [] c = "6" -> 6 [] c = "7" -> 7 [] c = "8" -> 8
                 [] c = "9" -> 9

\* int(n) for a string of decimal digits
RECURSIVE int(_)
int(n) == IF n = <<>> THEN 0
          ELSE 10 * int(SubSeq(n, 1, Len(n) - 1)) + DigitVal(n[Len(n)])

min(nums) == CHOOSE x \in {nums[k] : k \in DOMAIN nums} :
                 \A k \in DOMAIN nums : x <= nums[k]
max(nums) == CHOOSE x \in {nums[k] : k \in DOMAIN nums} :
                 \A k \in DOMAIN nums : x >= nums[k]

\* outcome of a call: a returned pair, or an exception that propagates
Return(lo, hi) == [exc |-> "", val |-> <<lo, hi>>]
Raise(e) == [exc |-> e, val |-> <<>>]

\* variant: first and last number instead of least and greatest
parse_cost_FirstLast(cs) ==
    IF ~truthy(cs) \/ cs = NA
    THEN Return(0, 0)
    ELSE IF cs.type # "str"
    THEN Raise("AttributeError")
    ELSE LET found == findall(replace(cs.chars, ","))
         IN  IF found = <<>>
             THEN Return(0, 0)
             ELSE LET nums == [k \in DOMAIN found |-> int(found[k])]
                  IN  Return(nums[1], nums[Len(nums)])

\* variant: only the sentinel is caught before the string methods are used
parse_cost_SentinelOnly(cs) ==
    IF cs = NA
    THEN Return(0, 0)
    ELSE IF cs.type # "str"
    THEN Raise("AttributeError")
    ELSE LET found == findall(replace(cs.chars, ","))
         IN  IF found = <<>>
             THEN Return(0, 0)
             ELSE LET nums == [k \in DOMAIN found |-> int(found[k])]
                  IN  IF Len(nums) = 1
                      THEN Return(nums[1], nums[1])
                      ELSE Return(min(nums), max(nums))

\* variant: no check for an empty list of numbers, so min([]) raises
parse_cost_NoEmptyCheck(cs) ==
    IF ~truthy(cs) \/ cs = NA
    THEN Return(0, 0)
    ELSE IF cs.type # "str"
    THEN Raise("AttributeError")
    ELSE LET found == findall(replace(cs.chars, ","))
             nums == [k \in DOMAIN found |-> int(found[k])]
         IN  IF Len(nums) = 1
             THEN Return(nums[1], nums[1])
             ELSE IF nums = <<>>
             THEN Raise("ValueError")
             ELSE Return(min(nums), max(nums))

parse_cost(cs) ==
    IF ~truthy(cs) \/ cs = NA
    THEN Return(0, 0)
    ELSE IF cs.type # "str"
    THEN Raise("AttributeError")
    ELSE LET found == findall(replace(cs.chars, ","))
         IN  IF found = <<>>
             THEN Return(0, 0)
             ELSE LET nums == [k \in DOMAIN found |-> int(found[k])]
                  IN  IF Len(nums) = 1
                      THEN Return(nums[1], nums[1])
                      ELSE Return(min(nums), max(nums))

\* dict.get(key, default)
get(d, key, default) == IF key \in DOMAIN d THEN d[key] ELSE default

\* variant: total_max = c_max instead of total_max += c_max
RECURSIVE calc_loop_Assign(_, _, _)
calc_loop_Assign(ds, k, tot) ==
    IF k > Len(ds)
    THEN Return(tot[1], tot[2])
    ELSE LET r == parse_cost(get(ds[k], "cost", NA))
         IN  IF r.exc # ""
             THEN r
             ELSE calc_loop_Assign(ds, k + 1, <<tot[1] + r.val[1], r.val[2]>>)

\* the for loop of calculate_total_repairs from record k on, the totals so
\* far being tot
RECURSIVE calc_loop(_, _, _)
calc_loop(ds, k, tot) ==
    IF k > Len(ds)
    THEN Return(tot[1], tot[2])
    ELSE LET r == parse_cost(get(ds[k], "cost", NA))
         IN  IF r.exc # ""
             THEN r
             ELSE calc_loop(ds, k + 1,
                            <<tot[1] + r.val[1], tot[2] + r.val[2]>>)

\* variant: the loop starts at the second record
calculate_total_repairs_SkipFirst(ds) == calc_loop(ds, 2, <<0, 0>>)

\* calculate_total_repairs as a function of its argument
calculate_total_repairs(ds) == calc_loop(ds, 1, <<0, 0>>)

----------------------------------------------------------------------------
(* State *)

VARIABLES
    caller,     \* the page that called calculate_total_repairs, "" if none
    fn,         \* the function being called
    pc,         \* position in its body
    cost_str,   \* argument of parse_cost
    defects,    \* argument of calculate_total_repairs
    d_idx,      \* position of the for loop in defects
    c_min, c_max, total_min, total_max,   \* locals of calculate_total_repairs
    ret,        \* outcome of the call
    button,     \* the button that started the run of the page, "" if none
    total_str,  \* the total the page on screen shows, None if it shows none
    pdf_total,  \* the total inside the PDF the page offers, None if no PDF
    docx_total, \* the total inside the DOCX the page offers, None if no DOCX
    saved,      \* the data of the last save_report call, key by key
    calls,      \* for each concurrent caller, the frame of its call
    users,      \* the users table: username -> role and full name
    reports,    \* the reports table: reports[id] is the row with that id
    session_state,  \* logged_in, role and fullname of st.session_state
    login_user, \* the username the login form was submitted with
    listed,     \* the ids of the reports the Manage Reports page lists
    rendered,   \* the page the last run of main rendered
    form,       \* the form the last run handled, with what was typed in it
    db_ret,     \* what add_new_user returned in the last run, "" if not called
    api_key,    \* st.session_state['api_key']
    failed      \* the positions in defects saved after a failed estimate

page_vars == <<button, total_str, pdf_total, docx_total, saved>>

app_vars == <<caller, fn, pc, cost_str, defects, d_idx, c_min, c_max,
              total_min, total_max, ret, page_vars>>

auth_vars == <<users, reports, session_state, login_user, listed, rendered,
               form, db_ret>>

est_vars == <<api_key, failed>>

vars == <<app_vars, calls, auth_vars, est_vars>>

locals == <<d_idx, c_min, c_max, total_min, total_max>>

\* a caller that is in no call
NoFrame ==
    [fn |-> "", pc |-> "", cost_str |-> None, defects |-> <<>>, d_idx |-> 0,
     c_min |-> 0, c_max |-> 0, total_min |-> 0, total_max |-> 0,
     ret |-> Raise("pending"), overlapped |-> FALSE]

Callers == {"a", "b"}

CallsStart == calls = [c \in Callers |-> NoFrame]

\* a run that handled no form
NoForm == [name |-> "", u |-> "", p |-> ""]

\* the session after main's defaults: nobody logged in
LoggedOut ==
    [logged_in |-> FALSE, role |-> "", fullname |-> "",
     page |-> "New Inspection"]

\* hashlib.sha256(p.encode()).hexdigest(): different passwords, different
\* digests, and no digest is a password
sha256(p) == <<"sha256", p>>

\* variant: the tables are created and nothing is inserted
init_db_TablesOnly(us) == us

\* init_db on the users table us: the row of 'admin' is inserted if there is
\* none, otherwise its password is set again
init_db(us) ==
    IF "admin" \in DOMAIN us
    THEN [us EXCEPT !["admin"].password = sha256("inspect")]
    ELSE [u \in DOMAIN us \cup {"admin"} |->
            IF u = "admin"
            THEN [password |-> sha256("inspect"), role |-> "admin",
                  full_name |-> "System Administrator"]
            ELSE us[u]]

\* the tables after init_db on an empty database, and a fresh session
AuthStart ==
    /\ users = init_db(<<>>)
    /\ reports = <<>>
    /\ session_state = LoggedOut
    /\ login_user = ""
    /\ listed = {}
    /\ rendered = "login_page"
    /\ form = NoForm
    /\ db_ret = ""

\* no API key in the settings, no defect saved
EstStart == api_key = "" /\ failed = {}

Init ==
    /\ CallsStart /\ AuthStart /\ EstStart
    /\ d_idx = 0 /\ c_min = 0 /\ c_max = 0
    /\ total_min = 0 /\ total_max = 0
    /\ ret = Raise("pending")
    /\ caller = ""
    /\ button = ""
    /\ total_str = None /\ pdf_total = None /\ docx_total = None
    /\ saved = <<>>
    /\ \/ /\ fn = "main"
          /\ pc = "idle"
          /\ cost_str = None
          /\ defects = <<>>
       \/ /\ fn = "parse_cost"
          /\ pc = "L209"
          /\ cost_str \in CostValues
          /\ defects = <<>>
       \/ /\ fn = "calculate_total_repairs"
          /\ pc = "L221"
          /\ cost_str = None
          /\ defects \in DefectLists

\* a call of parse_cost(cost_str)
ParseCost ==
    /\ UNCHANGED <<calls, auth_vars, est_vars>>
    /\ fn = "parse_cost" /\ pc = "L209"
    /\ ret' = parse_cost(cost_str)
    /\ pc' = IF ret'.exc = "" THEN "returned" ELSE "raised"
    /\ UNCHANGED <<page_vars, caller, fn, cost_str, defects, locals>>

\* variant: the totals are never initialised, so using them raises
CalcInit_Missing ==
    /\ UNCHANGED <<calls, auth_vars, est_vars>>
    /\ fn = "calculate_total_repairs" /\ pc = "L221"
    /\ ret' = Raise("UnboundLocalError")
    /\ pc' = "raised"
    /\ UNCHANGED <<page_vars, caller, fn, cost_str, defects, locals>>

\* total_min = 0; total_max = 0
CalcInit ==
    /\ UNCHANGED <<calls, auth_vars, est_vars>>
    /\ fn = "calculate_total_repairs" /\ pc = "L221"
    /\ total_min' = 0 /\ total_max' = 0
    /\ pc' = "L223"
    /\ UNCHANGED <<page_vars, caller, fn, cost_str, defects, d_idx, c_min, c_max, ret>>

\* for d in defects
CalcFor ==
    /\ UNCHANGED <<calls, auth_vars, est_vars>>
    /\ fn = "calculate_total_repairs" /\ pc = "L223"
    /\ IF d_idx < Len(defects)
       THEN d_idx' = d_idx + 1 /\ pc' = "L224"
       ELSE d_idx' = d_idx /\ pc' = "L227"
    /\ UNCHANGED <<page_vars, caller, fn, cost_str, defects, c_min, c_max, total_min,
                   total_max, ret>>

\* variant: d['cost'] instead of d.get('cost', 'N/A')
CalcParse_Subscript ==
    /\ UNCHANGED <<calls, auth_vars, est_vars>>
    /\ fn = "calculate_total_repairs" /\ pc = "L224"
    /\ LET r == IF "cost" \in DOMAIN defects[d_idx]
                THEN parse_cost(defects[d_idx].cost)
                ELSE Raise("KeyError")
       IN  IF r.exc = ""
           THEN /\ c_min' = r.val[1] /\ c_max' = r.val[2]
                /\ pc' = "L225"
                /\ ret' = ret
           ELSE /\ c_min' = c_min /\ c_max' = c_max
                /\ pc' = "raised"
                /\ ret' = r
    /\ UNCHANGED <<page_vars, caller, fn, cost_str, defects, d_idx, total_min, total_max>>

\* variant: d.setdefault('cost', 'N/A'), which writes the default into d
CalcParse_SetDefault ==
    /\ UNCHANGED <<calls, auth_vars, est_vars>>
    /\ fn = "calculate_total_repairs" /\ pc = "L224"
    /\ LET r == parse_cost(get(defects[d_idx], "cost", NA))
       IN  IF r.exc = ""
           THEN /\ c_min' = r.val[1] /\ c_max' = r.val[2]
                /\ pc' = "L225"
                /\ ret' = ret
           ELSE /\ c_min' = c_min /\ c_max' = c_max
                /\ pc' = "raised"
                /\ ret' = r
    /\ defects' = [defects EXCEPT ![d_idx] =
                     [defect_name |-> defects[d_idx].defect_name,
                      cost |-> get(defects[d_idx], "cost", NA)]]
    /\ UNCHANGED <<page_vars, caller, fn, cost_str, d_idx, total_min, total_max>>

\* c_min, c_max = parse_cost(d.get('cost', 'N/A'))
CalcParse ==
    /\ UNCHANGED <<calls, auth_vars, est_vars>>
    /\ fn = "calculate_total_repairs" /\ pc = "L224"
    /\ LET r == parse_cost(get(defects[d_idx], "cost", NA))
       IN  IF r.exc = ""
           THEN /\ c_min' = r.val[1] /\ c_max' = r.val[2]
                /\ pc' = "L225"
                /\ ret' = ret
           ELSE /\ c_min' = c_min /\ c_max' = c_max
                /\ pc' = "raised"
                /\ ret' = r
    /\ UNCHANGED <<page_vars, caller, fn, cost_str, defects, d_idx, total_min, total_max>>

\* variant: total_min += c_max
CalcAddMin_AddsMax ==
    /\ UNCHANGED <<calls, auth_vars, est_vars>>
    /\ fn = "calculate_total_repairs" /\ pc = "L225"
    /\ total_min' = total_min + c_max
    /\ pc' = "L226"
    /\ UNCHANGED <<page_vars, caller, fn, cost_str, defects, d_idx, c_min, c_max, total_max, ret>>

\* total_min += c_min
CalcAddMin ==
    /\ UNCHANGED <<calls, auth_vars, est_vars>>
    /\ fn = "calculate_total_repairs" /\ pc = "L225"
    /\ total_min' = total_min + c_min
    /\ pc' = "L226"
    /\ UNCHANGED <<page_vars, caller, fn, cost_str, defects, d_idx, c_min, c_max, total_max, ret>>

\* variant: total_max = c_max
CalcAddMax_Assign ==
    /\ UNCHANGED <<calls, auth_vars, est_vars>>
    /\ fn = "calculate_total_repairs" /\ pc = "L226"
    /\ total_max' = c_max
    /\ pc' = "L223"
    /\ UNCHANGED <<page_vars, caller, fn, cost_str, defects, d_idx, c_min, c_max, total_min, ret>>

\* total_max += c_max
CalcAddMax ==
    /\ UNCHANGED <<calls, auth_vars, est_vars>>
    /\ fn = "calculate_total_repairs" /\ pc = "L226"
    /\ total_max' = total_max + c_max
    /\ pc' = "L223"
    /\ UNCHANGED <<page_vars, caller, fn, cost_str, defects, d_idx, c_min, c_max, total_min, ret>>

\* return total_min, total_max
CalcReturn ==
    /\ UNCHANGED <<calls, auth_vars, est_vars>>
    /\ fn = "calculate_total_repairs" /\ pc = "L227"
    /\ ret' = Return(total_min, total_max)
    /\ pc' = "returned"
    /\ UNCHANGED <<page_vars, caller, fn, cost_str, defects, locals>>

----------------------------------------------------------------------------
(* The session: st.session_state['defects'] is the list the pages total *)

\* pd.DataFrame(defects).to_dict('records'): every record gets every column,
\* NaN where it had no value
to_dict(ds) ==
    LET some_cost == \E k \in DOMAIN ds : "cost" \in DOMAIN ds[k]
    IN  [k \in DOMAIN ds |->
            IF "cost" \notin DOMAIN ds[k] /\ some_cost
            THEN [defect_name |-> ds[k].defect_name, cost |-> NaN]
            ELSE ds[k]]

\* st.data_editor(df, num_rows="dynamic"): the frames the inspector can leave
\* behind with one edit: a cost cell changed, a row added, a row deleted, or
\* nothing changed
data_editor(df) ==
    {df}
    \cup {[df EXCEPT ![k] = [defect_name |-> df[k].defect_name, cost |-> v]] :
            k \in DOMAIN df, v \in EditorCosts}
    \cup {Append(df, [defect_name |-> "d", cost |-> v]) :
            v \in IF Len(df) < MaxDraft THEN EditorCosts ELSE {}}
    \cup {SubSeq(df, 1, k - 1) \o SubSeq(df, k + 1, Len(df)) : k \in DOMAIN df}

\* registers saved by earlier sessions: the reports table outlives a session
SavedRecords ==
    {[defect_name |-> "d", cost |-> v] : v \in {None, NA} \cup SampleCosts}
SavedLists == UNION {[1..k -> SavedRecords] : k \in 1..MaxDraft}

DigitChar(n) == CHOOSE c \in Digits : DigitVal(c) = n

\* str(n) for a non-negative integer
RECURSIVE digits_of(_)
digits_of(n) == IF n < 10 THEN <<DigitChar(n)>>
                ELSE Append(digits_of(n \div 10), DigitChar(n % 10))

\* f"{n:,}": the digits with a comma before every group of three
grouped(n) ==
    LET ds == digits_of(n)
        piece(i) == IF i < Len(ds) /\ (Len(ds) - i) % 3 = 0
                    THEN <<ds[i], ",">> ELSE <<ds[i]>>
        upto[i \in 0..Len(ds)] == IF i = 0 THEN <<>> ELSE upto[i - 1] \o piece(i)
    IN  upto[Len(ds)]

\* variant: the low total printed twice
format_total_LowTwice(t_min, t_max) ==
    Str(<<"$">> \o grouped(t_min) \o <<" ", "-", " ", "$">> \o grouped(t_min))

\* f"${t_min:,} - ${t_max:,}"
format_total(t_min, t_max) ==
    Str(<<"$">> \o grouped(t_min) \o <<" ", "-", " ", "$">> \o grouped(t_max))

\* data_to_save of report_page: each key with the session value stored
\* under it
data_to_save ==
    [addr |-> "addr", client |-> "client", year_built |-> "year_built",
     property_type |-> "property_type", defects |-> "defects",
     summary |-> "summ", maint_plan |-> "maint_plan"]

\* a run starts: what the last run put on screen is gone
NewRun ==
    /\ total_str' = None /\ pdf_total' = None /\ docx_total' = None

\* the Save Defect form of inspection_page: the cost is the AI estimate, or
\* "N/A" when estimate_cost raised; st.rerun() then shows the page again
SaveDefect ==
    /\ UNCHANGED <<calls, auth_vars, est_vars>>
    /\ fn = "main" /\ pc = "idle"
    /\ Len(defects) < MaxDraft
    /\ \E cost_est_val \in EditorCosts :
          defects' = Append(defects, [defect_name |-> "d", cost |-> cost_est_val])
    /\ NewRun
    /\ button' = ""
    /\ caller' = "inspection_page"
    /\ fn' = "calculate_total_repairs" /\ pc' = "L221"
    /\ UNCHANGED <<cost_str, locals, ret, saved>>

\* a run that shows the draft register of inspection_page: a total only if
\* there are defects
InspectionPage ==
    /\ UNCHANGED <<calls, auth_vars, est_vars>>
    /\ fn = "main" /\ pc = "idle"
    /\ NewRun
    /\ button' = ""
    /\ IF defects # <<>>
       THEN /\ caller' = "inspection_page"
            /\ fn' = "calculate_total_repairs" /\ pc' = "L221"
       ELSE UNCHANGED <<caller, fn, pc>>
    /\ UNCHANGED <<cost_str, defects, locals, ret, saved>>

\* a run that shows the Dashboard
Dashboard ==
    /\ UNCHANGED <<calls, auth_vars, est_vars>>
    /\ fn = "main" /\ pc = "idle"
    /\ NewRun
    /\ button' = ""
    /\ caller' = "dashboard"
    /\ fn' = "calculate_total_repairs" /\ pc' = "L221"
    /\ UNCHANGED <<cost_str, defects, locals, ret, saved>>

\* a run that shows report_page, started by an edit, by the save button or by
\* navigation: without defects it stops at once; otherwise the register goes
\* through the data editor and back into the session, then the total is
\* computed
ReportPage ==
    /\ UNCHANGED <<calls, auth_vars, est_vars>>
    /\ fn = "main" /\ pc = "idle"
    /\ NewRun
    /\ IF defects = <<>>
       THEN UNCHANGED <<caller, fn, pc, defects, button>>
       ELSE /\ \E edited_df \in data_editor(to_dict(defects)) :
                  defects' = edited_df
            /\ button' \in {"", "save"}
            /\ caller' = "report_page"
            /\ fn' = "calculate_total_repairs" /\ pc' = "L221"
    /\ UNCHANGED <<cost_str, locals, ret, saved>>

\* Load Report of manage_reports_page: the saved data replaces the session
\* values key by key. Reports saved by earlier sessions stay in the table, so
\* the register loaded need not be one this session saved.
LoadReport ==
    /\ UNCHANGED <<calls, auth_vars, est_vars>>
    /\ fn = "main" /\ pc = "idle"
    /\ NewRun
    /\ button' = ""
    /\ \E data \in SavedLists : defects' = data
    /\ UNCHANGED <<caller, fn, pc, cost_str, locals, ret, saved>>

\* the rest of the page's run once calculate_total_repairs is back: the total
\* is formatted and shown; report_page also saves the draft when its save
\* button started the run and the title and address are filled in, and builds
\* the PDF and the DOCX around the same string. The run ends.
Rendered ==
    /\ UNCHANGED <<calls, auth_vars, est_vars>>
    /\ fn = "calculate_total_repairs" /\ pc \in {"returned", "raised"}
    /\ caller # ""
    /\ IF pc = "raised"
       THEN UNCHANGED <<total_str, pdf_total, docx_total, saved>>
       ELSE /\ total_str' = format_total(ret.val[1], ret.val[2])
            /\ IF caller = "report_page"
               THEN /\ pdf_total' = total_str'
                    /\ docx_total' = total_str'
                    /\ IF button = "save"
                       THEN saved' \in {saved, data_to_save}
                       ELSE saved' = saved
               ELSE UNCHANGED <<pdf_total, docx_total, saved>>
    /\ button' = ""
    /\ caller' = ""
    /\ fn' = "main" /\ pc' = "idle"
    /\ d_idx' = 0 /\ c_min' = 0 /\ c_max' = 0
    /\ total_min' = 0 /\ total_max' = 0
    /\ ret' = Raise("pending")
    /\ UNCHANGED <<cost_str, defects>>

Next ==
    \/ LoadReport
    \/ SaveDefect
    \/ InspectionPage
    \/ Dashboard
    \/ ReportPage
    \/ Rendered
    \/ ParseCost
    \/ CalcInit
    \/ CalcFor
    \/ CalcParse
    \/ CalcAddMin
    \/ CalcAddMax
    \/ CalcReturn

Spec == Init /\ [][Next]_vars

----------------------------------------------------------------------------
(* Concurrent callers: every Streamlit session runs the script in a thread
   of its own, so calls of parse_cost and calculate_total_repairs interleave
   statement by statement. Each call has its own frame; the functions use no
   global. *)

MaxCallLen == 2

CallCosts == {None, NA, DocstringCost}

CallRecords ==
    {[defect_name |-> "d", cost |-> RangeCost], [defect_name |-> "d"]}

CallLists == UNION {[1..k -> CallRecords] : k \in 0..MaxCallLen}

\* app_vars of a session that is between runs
AppIdle ==
    /\ d_idx = 0 /\ c_min = 0 /\ c_max = 0
    /\ total_min = 0 /\ total_max = 0
    /\ ret = Raise("pending")
    /\ caller = ""
    /\ button = ""
    /\ total_str = None /\ pdf_total = None /\ docx_total = None
    /\ saved = <<>>
    /\ fn = "main" /\ pc = "idle"
    /\ cost_str = None /\ defects = <<>>

InitCalls == AppIdle /\ CallsStart /\ AuthStart /\ EstStart

\* the next statement of the call in frame f
frame_step(f) ==
    CASE f.pc = "L209" ->
           LET r == parse_cost(f.cost_str)
           IN  [f EXCEPT !.ret = r,
                         !.pc = IF r.exc = "" THEN "returned" ELSE "raised"]
      [] f.pc = "L221" ->
           [f EXCEPT !.total_min = 0, !.total_max = 0, !.pc = "L223"]
      [] f.pc = "L223" ->
           IF f.d_idx < Len(f.defects)
           THEN [f EXCEPT !.d_idx = f.d_idx + 1, !.pc = "L224"]
           ELSE [f EXCEPT !.pc = "L227"]
      [] f.pc = "L224" ->
           LET r == parse_cost(get(f.defects[f.d_idx], "cost", NA))
           IN  IF r.exc = ""
               THEN [f EXCEPT !.c_min = r.val[1], !.c_max = r.val[2],
                              !.pc = "L225"]
               ELSE [f EXCEPT !.ret = r, !.pc = "raised"]
      [] f.pc = "L225" ->
           [f EXCEPT !.total_min = f.total_min + f.c_min, !.pc = "L226"]
      [] f.pc = "L226" ->
           [f EXCEPT !.total_max = f.total_max + f.c_max, !.pc = "L223"]
      [] f.pc = "L227" ->
           [f EXCEPT !.ret = Return(f.total_min, f.total_max),
                     !.pc = "returned"]

InCall(f) == f.fn # "" /\ f.pc \notin {"returned", "raised"}

\* the frame has run a statement and has more to run
MidCall(f) == InCall(f) /\ f.pc \notin {"L209", "L221"}

\* caller c calls parse_cost(v)
InvokeParseCost(c) ==
    /\ calls[c].fn = ""
    /\ \E v \in CallCosts :
          calls' = [calls EXCEPT ![c] =
                      [NoFrame EXCEPT !.fn = "parse_cost", !.pc = "L209",
                                      !.cost_str = v]]
    /\ UNCHANGED <<app_vars, auth_vars, est_vars>>

\* caller c calls calculate_total_repairs(ds)
InvokeCalc(c) ==
    /\ calls[c].fn = ""
    /\ \E ds \in CallLists :
          calls' = [calls EXCEPT ![c] =
                      [NoFrame EXCEPT !.fn = "calculate_total_repairs",
                                      !.pc = "L221", !.defects = ds]]
    /\ UNCHANGED <<app_vars, auth_vars, est_vars>>

\* variant: total_min and total_max are module-level names, one pair for all
\* callers (kept in the first caller's frame)
StepCall_GlobalTotals(c) ==
    /\ InCall(calls[c])
    /\ LET g == "a"
           f == [calls[c] EXCEPT !.total_min = calls[g].total_min,
                                 !.total_max = calls[g].total_max]
           n == frame_step(f)
       IN  calls' = [h \in Callers |->
                       IF h = c THEN n
                       ELSE IF h = g
                            THEN [calls[h] EXCEPT !.total_min = n.total_min,
                                                  !.total_max = n.total_max]
                            ELSE calls[h]]
    /\ UNCHANGED <<app_vars, auth_vars, est_vars>>

\* the thread of caller c runs its next statement; overlapped records that
\* another caller was in the middle of a call at that moment
StepCall(c) ==
    /\ InCall(calls[c])
    /\ calls' = [calls EXCEPT ![c] =
                   [frame_step(calls[c]) EXCEPT !.overlapped =
                       \/ calls[c].overlapped
                       \/ \E h \in Callers \ {c} : MidCall(calls[h])]]
    /\ UNCHANGED <<app_vars, auth_vars, est_vars>>

\* caller c takes the result; it may call again
FinishCall(c) ==
    /\ calls[c].pc \in {"returned", "raised"}
    /\ calls' = [calls EXCEPT ![c] = NoFrame]
    /\ UNCHANGED <<app_vars, auth_vars, est_vars>>

NextCalls ==
    \/ \E c \in Callers : InvokeParseCost(c)
    \/ \E c \in Callers : InvokeCalc(c)
    \/ \E c \in Callers : StepCall(c)
    \/ \E c \in Callers : FinishCall(c)

SpecCalls == InitCalls /\ [][NextCalls]_vars

----------------------------------------------------------------------------
(* The AI cost estimate of the Save Defect form *)

\* what the API Key field of the settings can hold
ApiKeys == {"", "key"}

\* str(e) of the exceptions generate_content raises
ErrorMessages ==
    {<<"t", "i", "m", "e", "d", " ", "o", "u", "t">>,
     <<"4", "2", "9", " ", "R", "E", "S", "O", "U", "R", "C", "E", "_",
       "E", "X", "H", "A", "U", "S", "T", "E", "D">>}

\* response.text of the calls that return
ResponseTexts == {None, HelpTextCost}

\* the outcomes of client.models.generate_content
GenOutcomes ==
    {[raises |-> FALSE, e |-> <<>>, text |-> t] : t \in ResponseTexts}
    \cup {[raises |-> TRUE, e |-> e, text |-> None] : e \in ErrorMessages}

\* AIEngine.__init__: self.client is None unless there is an API key
client(key) == IF key # "" THEN "Client" ELSE "None"

\* AIEngine._generate_content_text: the text, or the text of the failure
generate_content_text(key, o) ==
    IF client(key) = "None"
    THEN [exc |-> "", val |-> Str(<<"A", "I", " ", "E", "r", "r", "o", "r",
                             ":", " ", "A", "P", "I", " ", "K", "e",
                             "y", " ", "n", "o", "t", " ", "c", "o",
                             "n", "f", "i", "g", "u", "r", "e", "d",
                             ".">>)]
    ELSE IF o.raises
         THEN [exc |-> "", val |-> Str(<<"A", "I", " ", "G", "e", "n",
                                         "e", "r", "a", "t", "i", "o",
                                         "n", " ", "F", "a", "i", "l",
                                         "e", "d", ":", " ">>
                                       \o o.e)]
         ELSE [exc |-> "", val |-> o.text]

\* AIEngine.estimate_cost
estimate_cost(key, o) == generate_content_text(key, o)

InitEstimate == AppIdle /\ CallsStart /\ AuthStart /\ EstStart

\* the API Key field of the sidebar is changed; the run shows the draft
\* register again
Settings ==
    /\ fn = "main" /\ pc = "idle"
    /\ api_key' \in ApiKeys
    /\ NewRun
    /\ button' = ""
    /\ IF defects # <<>>
       THEN /\ caller' = "inspection_page"
            /\ fn' = "calculate_total_repairs" /\ pc' = "L221"
       ELSE UNCHANGED <<caller, fn, pc>>
    /\ UNCHANGED <<cost_str, defects, locals, ret, saved, failed, calls,
                   auth_vars>>

\* the Save Defect form of inspection_page with the estimate spelled out:
\* cost_est_val is "N/A" unless estimate_cost returns; the record is
\* appended and st.rerun() shows the page again
SaveDefectAI ==
    /\ fn = "main" /\ pc = "idle"
    /\ Len(defects) < MaxDraft
    /\ \E o \in GenOutcomes :
          LET est == estimate_cost(api_key, o)
              cost_est_val == IF est.exc = "" THEN est.val ELSE NA
          IN  /\ defects' = Append(defects, [defect_name |-> "d",
                                             cost |-> cost_est_val])
              /\ failed' = IF client(api_key) = "None" \/ o.raises
                           THEN failed \cup {Len(defects) + 1}
                           ELSE failed
    /\ NewRun
    /\ button' = ""
    /\ caller' = "inspection_page"
    /\ fn' = "calculate_total_repairs" /\ pc' = "L221"
    /\ UNCHANGED <<cost_str, locals, ret, saved, api_key, calls, auth_vars>>

NextEstimate ==
    \/ Settings
    \/ SaveDefectAI
    \/ CalcInit
    \/ CalcFor
    \/ CalcParse
    \/ CalcAddMin
    \/ CalcAddMax
    \/ CalcReturn
    \/ Rendered

SpecEstimate == InitEstimate /\ [][NextEstimate]_vars

----------------------------------------------------------------------------
(* Users, reports and the login session: one browser session, every action
   a run of main *)

MaxReports == 2

\* what can be typed into the login form
FormUsernames == {"", "admin", "u1", "u2"}
LoginPasswords == {"pw", "inspect"}

\* submissions of the Add New User form: two inspectors with one full name,
\* u2 also under another name and as an admin, the username of the default
\* admin, and one submission for each field left empty
AddForms ==
    {[u |-> "u1", p |-> "pw", r |-> "inspector", fn_ |-> "J Smith"],
     [u |-> "u2", p |-> "pw", r |-> "inspector", fn_ |-> "J Smith"],
     [u |-> "u2", p |-> "pw", r |-> "inspector", fn_ |-> "A Jones"],
     [u |-> "u2", p |-> "pw", r |-> "admin", fn_ |-> "A Jones"],
     [u |-> "admin", p |-> "pw", r |-> "inspector", fn_ |-> "A Jones"],
     [u |-> "", p |-> "pw", r |-> "inspector", fn_ |-> "J Smith"],
     [u |-> "u1", p |-> "", r |-> "inspector", fn_ |-> "J Smith"],
     [u |-> "u1", p |-> "pw", r |-> "inspector", fn_ |-> ""]}

InitAuth == AppIdle /\ CallsStart /\ AuthStart /\ EstStart

\* what the runs of this section leave alone in the session
call_vars == <<caller, fn, pc, cost_str, locals, ret, button>>

NoUser == <<>>

\* variant: the row is selected by username alone
check_login_AnyPassword(u, p) ==
    IF u \in DOMAIN users
    THEN <<users[u].role, users[u].full_name>>
    ELSE NoUser

\* check_login: role and full name of the row with this username and this
\* password's hash, None if there is none
check_login(u, p) ==
    IF u \in DOMAIN users /\ users[u].password = sha256(p)
    THEN <<users[u].role, users[u].full_name>>
    ELSE NoUser

\* variant: every session gets the Admin entry
menu_AdminForAll(role) ==
    <<"New Inspection", "Manage Reports", "Dashboard", "Finalize Report",
      "Admin">>

\* the navigation menu of main
menu(role) ==
    IF role = "admin"
    THEN <<"New Inspection", "Manage Reports", "Dashboard", "Finalize Report",
           "Admin">>
    ELSE <<"New Inspection", "Manage Reports", "Dashboard", "Finalize Report">>

Entries(m) == {m[i] : i \in DOMAIN m}

\* pg = st.radio("Navigate", menu, index=...): the entry picked, or without a
\* pick the stored page if it is in the menu and the first entry otherwise
radio(m, page, pick) ==
    IF pick # "" THEN pick
    ELSE IF page \in Entries(m) THEN page ELSE m[1]

\* the page function main routes to, and for admin_page what its role test
\* lets through
route(pg, role) ==
    CASE pg = "New Inspection" -> "inspection_page"
      [] pg = "Manage Reports" -> "manage_reports_page"
      [] pg = "Dashboard" -> "dashboard"
      [] pg = "Finalize Report" -> "report_page"
      [] pg = "Admin" -> IF role # "admin" THEN "admin_restricted"
                         ELSE "admin_page"

\* the total a run of page pg puts on screen and into the exports
ShowTotals(pg, ds) ==
    LET r == calculate_total_repairs(ds)
        shows == \/ pg = "Dashboard"
                 \/ pg \in {"New Inspection", "Finalize Report"} /\ ds # <<>>
    IN  /\ total_str' = IF shows THEN format_total(r.val[1], r.val[2])
                        ELSE None
        /\ pdf_total' = IF pg = "Finalize Report" /\ ds # <<>>
                        THEN total_str' ELSE None
        /\ docx_total' = pdf_total'

\* the ids get_all_reports(inspector) selects
get_all_reports(inspector) ==
    IF inspector # "" /\ session_state.role # "admin"
    THEN {id \in DOMAIN reports : reports[id].inspector = inspector}
    ELSE DOMAIN reports

\* a run of main for a logged-in session in which entry pick is clicked
\* ("" for none) and the register is ds: the page is stored and rendered
Page(pick, ds) ==
    LET pg == radio(menu(session_state.role), session_state.page, pick)
    IN  /\ session_state' = [session_state EXCEPT !.page = pg]
        /\ rendered' = route(pg, session_state.role)
        /\ listed' = IF pg = "Manage Reports"
                     THEN get_all_reports(session_state.fullname) ELSE {}
        /\ ShowTotals(pg, ds)

\* the login form is submitted; on a match the session is filled in and
\* st.rerun() shows the New Inspection page
Login ==
    /\ ~session_state.logged_in
    /\ \E u \in FormUsernames, p \in LoginPasswords :
          LET user == check_login(u, p)
          IN  /\ form' = [NoForm EXCEPT !.name = "login", !.u = u, !.p = p]
              /\ IF user # NoUser
                 THEN /\ session_state' =
                           [logged_in |-> TRUE, role |-> user[1],
                            fullname |-> user[2], page |-> "New Inspection"]
                      /\ login_user' = u
                      /\ rendered' = "inspection_page"
                      /\ ShowTotals("New Inspection", defects)
                 ELSE /\ rendered' = "login_page"
                      /\ UNCHANGED <<session_state, login_user, total_str,
                                     pdf_total, docx_total>>
    /\ users' = init_db(users)
    /\ listed' = {}
    /\ db_ret' = ""
    /\ UNCHANGED <<reports, defects, saved, call_vars, calls, est_vars>>

\* the Logout button: st.session_state.clear() and st.rerun(); the next run
\* sets the defaults again and shows the login page
Logout ==
    /\ session_state.logged_in
    /\ session_state' = LoggedOut
    /\ login_user' = ""
    /\ defects' = <<>>
    /\ total_str' = None /\ pdf_total' = None /\ docx_total' = None
    /\ rendered' = "login_page"
    /\ form' = NoForm /\ db_ret' = "" /\ listed' = {}
    /\ users' = init_db(users)
    /\ UNCHANGED <<reports, saved, call_vars, calls, est_vars>>

\* a run in which a menu entry other than Manage Reports is clicked, or none
Navigate ==
    /\ session_state.logged_in
    /\ \E pick \in Entries(menu(session_state.role)) \cup {""} :
          /\ radio(menu(session_state.role), session_state.page, pick)
                # "Manage Reports"
          /\ Page(pick, defects)
    /\ form' = NoForm /\ db_ret' = ""
    /\ users' = init_db(users)
    /\ UNCHANGED <<reports, login_user, defects, saved, call_vars, calls,
                   est_vars>>

\* the Save Defect form of inspection_page, the cost being the example of
\* the prompt
SaveDefectAuth ==
    /\ session_state.logged_in
    /\ radio(menu(session_state.role), session_state.page, "")
          = "New Inspection"
    /\ Len(defects) < MaxDraft
    /\ defects' = Append(defects, [defect_name |-> "d", cost |-> HelpTextCost])
    /\ Page("", defects')
    /\ form' = NoForm /\ db_ret' = ""
    /\ users' = init_db(users)
    /\ UNCHANGED <<reports, login_user, saved, call_vars, calls, est_vars>>

\* variant: INSERT OR REPLACE INTO users
add_new_user_Replace(username, password, role, full_name) ==
    [ret |-> "True",
     users |-> [u \in DOMAIN users \cup {username} |->
                  IF u = username
                  THEN [password |-> sha256(password), role |-> role,
                        full_name |-> full_name]
                  ELSE users[u]]]

\* add_new_user: INSERT INTO users; a second row with the same username is
\* an IntegrityError, which returns False and changes nothing
add_new_user(username, password, role, full_name) ==
    IF username \in DOMAIN users
    THEN [ret |-> "False", users |-> users]
    ELSE [ret |-> "True",
          users |-> [u \in DOMAIN users \cup {username} |->
                       IF u = username
                       THEN [password |-> sha256(password), role |-> role,
                             full_name |-> full_name]
                       ELSE users[u]]]

\* the Create User form of admin_page, which main routes to for the entry
\* Admin and which goes on only for the role admin
AddUser ==
    /\ session_state.logged_in
    /\ route(radio(menu(session_state.role), session_state.page, ""),
             session_state.role) = "admin_page"
    /\ \E f \in AddForms :
          /\ form' = [name |-> "add_user", u |-> f.u, p |-> f.p]
          /\ IF f.u # "" /\ f.p # "" /\ f.fn_ # ""
             THEN LET a == add_new_user(f.u, f.p, f.r, f.fn_)
                  IN  users' = init_db(a.users) /\ db_ret' = a.ret
             ELSE users' = init_db(users) /\ db_ret' = ""
    /\ Page("", defects)
    /\ UNCHANGED <<reports, login_user, defects, saved, call_vars, calls,
                   est_vars>>

\* DELETE FROM users WHERE username = ?
delete_user(username) == [u \in DOMAIN users \ {username} |-> users[u]]

\* the Delete Selected User form of admin_page: every username but 'admin'
\* is offered; st.rerun() follows
DeleteUser ==
    /\ session_state.logged_in
    /\ route(radio(menu(session_state.role), session_state.page, ""),
             session_state.role) = "admin_page"
    /\ \E user_to_delete \in DOMAIN users \ {"admin"} :
          /\ form' = [NoForm EXCEPT !.name = "delete_user",
                                    !.u = user_to_delete]
          /\ users' = init_db(delete_user(user_to_delete))
    /\ db_ret' = ""
    /\ Page("", defects)
    /\ UNCHANGED <<reports, login_user, defects, saved, call_vars, calls,
                   est_vars>>

\* Save Current Draft of report_page, with defects in the register and the
\* title and address filled in: save_report with the session's full name as
\* inspector; the row gets the next id. saved_by records who was logged in.
SaveReport ==
    /\ session_state.logged_in
    /\ radio(menu(session_state.role), session_state.page, "")
          = "Finalize Report"
    /\ defects # <<>>
    /\ Len(reports) < MaxReports
    /\ reports' = Append(reports, [inspector |-> session_state.fullname,
                                   saved_by |-> login_user])
    /\ saved' = data_to_save
    /\ Page("", defects)
    /\ form' = NoForm /\ db_ret' = ""
    /\ users' = init_db(users)
    /\ UNCHANGED <<login_user, defects, call_vars, calls, est_vars>>

\* a run of manage_reports_page
ManageReports ==
    /\ session_state.logged_in
    /\ Page("Manage Reports", defects)
    /\ form' = NoForm /\ db_ret' = ""
    /\ users' = init_db(users)
    /\ UNCHANGED <<reports, login_user, defects, saved, call_vars, calls,
                   est_vars>>

NextAuth ==
    \/ Login
    \/ Logout
    \/ Navigate
    \/ SaveDefectAuth
    \/ AddUser
    \/ DeleteUser
    \/ SaveReport
    \/ ManageReports

SpecAuth == InitAuth /\ [][NextAuth]_vars

----------------------------------------------------------------------------
(* What the contract says, stated on the text of the cost string *)

\* a character that belongs to a written number: a digit or a thousands comma
IsNumberChar(s, k) == s[k] \in Digits \cup {","}

\* the written numbers of s: the maximal stretches a..b of digits and commas
\* that hold at least one digit
Numbers(s) ==
    {ab \in (1..Len(s)) \X (1..Len(s)) :
        /\ ab[1] <= ab[2]
        /\ \A k \in ab[1]..ab[2] : IsNumberChar(s, k)
        /\ \E k \in ab[1]..ab[2] : s[k] \in Digits
        /\ (ab[1] = 1 \/ ~IsNumberChar(s, ab[1] - 1))
        /\ (ab[2] = Len(s) \/ ~IsNumberChar(s, ab[2] + 1))}

\* the integer a written number denotes: each digit weighted by the power of
\* ten of the digits to its right
NumberValue(s, a, b) ==
    LET weight(k) == Cardinality({j \in (k + 1)..b : s[j] \in Digits})
        sum[k \in (a - 1)..b] ==
            IF k = a - 1 THEN 0
            ELSE sum[k - 1] + (IF s[k] \in Digits
                               THEN DigitVal(s[k]) * 10 ^ weight(k)
                               ELSE 0)
    IN  sum[b]

NumberValues(s) == {NumberValue(s, ab[1], ab[2]) : ab \in Numbers(s)}

Least(S) == CHOOSE x \in S : \A y \in S : x <= y
Greatest(S) == CHOOSE x \in S : \A y \in S : x >= y

HasDigit(v) == v.type = "str" /\ \E k \in DOMAIN v.chars : v.chars[k] \in Digits

ParseDone == fn = "parse_cost" /\ pc # "L209"
CalcDone == fn = "calculate_total_repairs" /\ pc \in {"returned", "raised"}

\* the bounds the contract assigns to one record
RecordBounds(d) ==
    LET v == IF "cost" \in DOMAIN d THEN d.cost ELSE NA
    IN  IF HasDigit(v)
        THEN <<Least(NumberValues(v.chars)), Greatest(NumberValues(v.chars))>>
        ELSE <<0, 0>>

RECURSIVE SumBounds(_)
SumBounds(ds) ==
    IF ds = <<>> THEN <<0, 0>>
    ELSE LET rest == SumBounds(Tail(ds))
             b == RecordBounds(Head(ds))
         IN  <<b[1] + rest[1], b[2] + rest[2]>>

RECURSIVE SumParsed(_)
SumParsed(ds) ==
    IF ds = <<>> THEN <<0, 0>>
    ELSE LET rest == SumParsed(Tail(ds))
             p == parse_cost(get(Head(ds), "cost", NA)).val
         IN  <<p[1] + rest[1], p[2] + rest[2]>>

----------------------------------------------------------------------------
(* Claims *)

\* C1: calculate_total_repairs returns (sum of low_i, sum of high_i), where
\* (low_i, high_i) is parse_cost applied to the i-th record's cost.
C1_TotalIsSumOfParsed ==
    CalcDone => ret = Return(SumParsed(defects)[1], SumParsed(defects)[2])

C1_Witness ==
    /\ CalcDone /\ pc = "returned" /\ Len(defects) = 2
    /\ defects = <<[defect_name |-> "d", cost |-> DocstringCost],
                   [defect_name |-> "d", cost |-> HelpTextCost]>>
    /\ ret.val = <<1000, 2200>>

\* C2: a cost string with two or more written numbers (digit runs once the
\* thousands commas are dropped) parses to (least number, greatest number),
\* whatever their order and however many there are.
C2_TwoOrMoreRunsMinMax ==
    (ParseDone /\ cost_str.type = "str"
       /\ Cardinality(Numbers(cost_str.chars)) >= 2)
    => ret = Return(Least(NumberValues(cost_str.chars)),
                    Greatest(NumberValues(cost_str.chars)))

C2_Witness ==
    /\ ParseDone
    /\ cost_str = Str(<<"2", "/", "0", "A", "1">>)
    /\ ret = Return(0, 2)

\* C3: a cost string with exactly one written number n, with any non-digit
\* characters around it and any commas inside it, parses to (n, n).
C3_OneRunBothBounds ==
    (ParseDone /\ cost_str.type = "str"
       /\ Cardinality(Numbers(cost_str.chars)) = 1)
    => \E ab \in Numbers(cost_str.chars) :
          ret = Return(NumberValue(cost_str.chars, ab[1], ab[2]),
                       NumberValue(cost_str.chars, ab[1], ab[2]))

C3_Witness ==
    /\ ParseDone
    /\ cost_str = Str(<<"N", "1", ",", "2", "A">>)
    /\ ret = Return(12, 12)

\* C4: an input that is empty, None or exactly "N/A" parses to (0, 0).
C4_EmptyNoneSentinelZero ==
    (ParseDone /\ cost_str \in {None, Str(<<>>), Str(<<"N", "/", "A">>)})
    => ret = Return(0, 0)

C4_Witness ==
    /\ ParseDone /\ cost_str = None /\ ret = Return(0, 0)

\* C5: a non-empty cost string without any decimal digit parses to (0, 0).
C5_NoDigitZero ==
    (ParseDone /\ cost_str.type = "str" /\ cost_str.chars # <<>>
       /\ \A k \in DOMAIN cost_str.chars : cost_str.chars[k] \notin Digits)
    => ret = Return(0, 0)

C5_Witness ==
    /\ ParseDone
    /\ cost_str = Str(<<"/", ",", "A", "N">>)
    /\ ret = Return(0, 0)

C8_MissingCostIsSentinel ==
    /\ (fn = "calculate_total_repairs" /\ pc = "L225"
          /\ "cost" \notin DOMAIN defects[d_idx])
       => <<c_min, c_max>> = <<0, 0>>
    /\ CalcDone =>
         LET fill(d) == IF "cost" \in DOMAIN d THEN d
                        ELSE [defect_name |-> d.defect_name, cost |-> NA]
             filled == [k \in DOMAIN defects |-> fill(defects[k])]
         IN  ret = Return(SumBounds(filled)[1], SumBounds(filled)[2])

C8_Witness ==
    /\ CalcDone /\ pc = "returned"
    /\ defects = <<[defect_name |-> "d"],
                   [defect_name |-> "d", cost |-> HelpTextCost]>>
    /\ ret = Return(500, 1000)

\* C9: the pair parse_cost returns is two non-negative integers, low <= high.
C9_BoundsOrdered ==
    ParseDone =>
        /\ ret.exc = ""
        /\ ret.val[1] \in Nat /\ ret.val[2] \in Nat
        /\ ret.val[1] <= ret.val[2]

C9_Witness ==
    /\ ParseDone
    /\ cost_str = Str(<<"2", "1", "/", "2", "0">>)
    /\ ret = Return(20, 21)

\* C10: the running total, after each record has been added, and the pair
\* calculate_total_repairs returns are two non-negative integers with
\* totalLow <= totalHigh.
C10_TotalsOrdered ==
    /\ (fn = "calculate_total_repairs" /\ pc \in {"L223", "L227", "returned"})
       => /\ total_min \in Nat /\ total_max \in Nat
          /\ total_min <= total_max
    /\ CalcDone =>
          /\ ret.exc = ""
          /\ ret.val[1] \in Nat /\ ret.val[2] \in Nat
          /\ ret.val[1] <= ret.val[2]

C10_Witness ==
    /\ fn = "calculate_total_repairs" /\ pc = "L223"
    /\ d_idx = 1 /\ Len(defects) = 2
    /\ total_min = 500 /\ total_max = 1200

\* the orderings of a list of records
Orderings(ds) ==
    {[k \in DOMAIN ds |-> ds[p[k]]] :
        p \in {q \in [DOMAIN ds -> DOMAIN ds] :
                 \A i, j \in DOMAIN ds : q[i] = q[j] => i = j}}

\* C11: calculate_total_repairs returns the same pair for every permutation
\* of its list of records.
C11_OrderIndependent ==
    CalcDone => \A p \in Orderings(defects) : calculate_total_repairs(p) = ret

C11_Witness ==
    /\ CalcDone /\ pc = "returned"
    /\ defects = <<[defect_name |-> "d", cost |-> DocstringCost],
                   [defect_name |-> "d", cost |-> Str(<<"1">>)]>>
    /\ ret = Return(501, 1201)

\* C12: calculate_total_repairs of a concatenation r1 ++ r2 is the
\* element-wise sum of its results on r1 and on r2.
C12_Additive ==
    CalcDone =>
        \A k \in 0..Len(defects) :
            LET r1 == calculate_total_repairs(SubSeq(defects, 1, k))
                r2 == calculate_total_repairs(SubSeq(defects, k + 1, Len(defects)))
            IN  /\ r1.exc = "" /\ r2.exc = ""
                /\ ret = Return(r1.val[1] + r2.val[1], r1.val[2] + r2.val[2])

C12_Witness ==
    /\ CalcDone /\ pc = "returned"
    /\ defects = <<[defect_name |-> "d", cost |-> HelpTextCost],
                   [defect_name |-> "d", cost |-> Str(<<"1", "1">>)]>>
    /\ ret = Return(511, 1011)

\* C13: calculate_total_repairs of the empty list returns (0, 0).
C13_EmptyIsZero ==
    (CalcDone /\ defects = <<>>) => ret = Return(0, 0)

C13_Witness ==
    /\ CalcDone /\ pc = "returned" /\ caller = "dashboard"
    /\ defects = <<>>
    /\ ret = Return(0, 0)

\* C14: no step of parse_cost or calculate_total_repairs changes the input
\* string, the list of records or a field of a record, which is all the
\* session state they can reach.
C14_NoSideEffects ==
    [][(fn \in {"parse_cost", "calculate_total_repairs"})
         => /\ cost_str' = cost_str /\ defects' = defects
            /\ pc \notin {"returned", "raised"} => page_vars' = page_vars]_vars

C14_Witness ==
    /\ CalcDone /\ pc = "returned"
    /\ defects = <<[defect_name |-> "d"],
                   [defect_name |-> "d", cost |-> None]>>
    /\ ret = Return(0, 0)

\* C17: parse_cost("Approx 2 x $300 panels") returns (2, 300): the quantity
\* counts as a price.
C17_QuantityIsPrice ==
    (ParseDone /\ cost_str = QuantityCost) => ret = Return(2, 300)

C17_Witness ==
    /\ ParseDone /\ pc = "returned"
    /\ cost_str = QuantityCost
    /\ ret = Return(2, 300)

\* C18: calculate_total_repairs on the records with costs "$100 - $200",
\* "$50" and "N/A" returns (150, 250).
C18_ScenarioTotal ==
    (CalcDone /\ defects = ScenarioRecords) => ret = Return(150, 250)

C18_Witness ==
    /\ CalcDone /\ pc = "returned"
    /\ defects = ScenarioRecords
    /\ ret = Return(150, 250)

\* C20: commas are dropped before the digit runs are taken: "1,200" is read
\* as 1200, "$500 - $1,200" gives (500, 1200), and both bounds of any result
\* are values of whole written numbers, never of a piece between commas.
C20_ThousandsSeparators ==
    /\ (ParseDone /\ cost_str = Str(<<"1", ",", "2", "0", "0">>))
       => ret = Return(1200, 1200)
    /\ (ParseDone /\ cost_str = DocstringCost) => ret = Return(500, 1200)
    /\ (ParseDone /\ HasDigit(cost_str))
       => /\ ret.exc = ""
          /\ {ret.val[1], ret.val[2]} \subseteq NumberValues(cost_str.chars)

C20_Witness ==
    /\ ParseDone /\ pc = "returned"
    /\ cost_str = DocstringCost
    /\ ret = Return(500, 1200)

\* the pair of numbers a shown total reads as, left to right
ShownPair(v) ==
    LET ns == Numbers(v.chars)
        first == CHOOSE ab \in ns : \A cd \in ns : ab[1] <= cd[1]
        last == CHOOSE ab \in ns : \A cd \in ns : ab[1] >= cd[1]
    IN  <<NumberValue(v.chars, first[1], first[2]),
          NumberValue(v.chars, last[1], last[2])>>

IsCurrentTotal(v) ==
    /\ Cardinality(Numbers(v.chars)) = 2
    /\ ShownPair(v) = calculate_total_repairs(defects).val

IsolatedResult(f) ==
    IF f.fn = "parse_cost" THEN parse_cost(f.cost_str)
    ELSE calculate_total_repairs(f.defects)

\* C16: however the statements of the callers' calls of parse_cost and
\* calculate_total_repairs interleave, and however often they call, every
\* finished call has the result of one isolated call on the same input, and
\* two finished calls of the same function on the same input agree.
C16_CallsIndependent ==
    /\ \A c \in Callers :
          calls[c].pc \in {"returned", "raised"}
             => calls[c].ret = IsolatedResult(calls[c])
    /\ \A c, h \in Callers :
          (/\ calls[c].pc \in {"returned", "raised"}
           /\ calls[h].pc \in {"returned", "raised"}
           /\ calls[c].fn = calls[h].fn
           /\ calls[c].cost_str = calls[h].cost_str
           /\ calls[c].defects = calls[h].defects)
             => calls[c].ret = calls[h].ret

C16_Witness ==
    /\ calls["a"].fn = "calculate_total_repairs"
    /\ calls["a"].pc = "returned" /\ calls["a"].overlapped
    /\ Len(calls["a"].defects) = 2
    /\ calls["a"].ret = Return(200, 400)
    /\ calls["b"].fn = "calculate_total_repairs"
    /\ calls["b"].pc = "returned" /\ calls["b"].overlapped
    /\ calls["b"].ret = Return(100, 200)

\* C19: for every logged-in user whose role is not admin, every report the
\* Manage Reports page lists was saved by that same user.
C19_InspectorSeesOwnOnly ==
    (session_state.logged_in /\ session_state.role # "admin")
       => \A id \in listed : reports[id].saved_by = login_user

\* the defects whose estimate did not fail, in order
RECURSIVE Succeeded(_, _)
Succeeded(ds, k) ==
    IF k > Len(ds) THEN <<>>
    ELSE IF k \in failed THEN Succeeded(ds, k + 1)
         ELSE <<ds[k]>> \o Succeeded(ds, k + 1)

\* C21: a defect saved after a failed estimate (no API key, or the
\* generation call raised) parses to (0, 0), and a total on screen is the
\* total of the defects whose estimate did not fail.
C21_FailedEstimateAddsNothing ==
    /\ \A k \in failed : parse_cost(get(defects[k], "cost", NA)) = Return(0, 0)
    /\ total_str # None
          => ShownPair(total_str)
                = calculate_total_repairs(Succeeded(defects, 1)).val

\* C22: the user management of the Admin page is rendered, and add_new_user
\* and delete_user are called, only in a run of a session whose role is
\* admin; for any other role the menu has no Admin entry, the stored page is
\* never Admin, and a stored page of Admin without a pick gives the first
\* menu entry.
C22_AdminOnly ==
    /\ rendered = "admin_page" => session_state.role = "admin"
    /\ form.name \in {"add_user", "delete_user"}
          => session_state.role = "admin"
    /\ (session_state.logged_in /\ session_state.role # "admin")
          => /\ "Admin" \notin Entries(menu(session_state.role))
             /\ session_state.page # "Admin"
             /\ rendered # "admin_restricted"
             /\ radio(menu(session_state.role), "Admin", "")
                   = menu(session_state.role)[1]

C22_Witness ==
    /\ session_state.logged_in
    /\ session_state.role = "inspector"
    /\ login_user = "u1"
    /\ rendered = "dashboard"
    /\ "u2" \in DOMAIN users

\* C23: while nobody is logged in only the login page is rendered and the
\* defects do not change; logged_in becomes true only in a run whose login
\* form held the username of a stored row and the password that hashes to
\* the row's hash, and the session gets that row's role and full name; once
\* logged_in becomes false the session holds the defaults, the defects are
\* empty and the login page is rendered.
C23_LoginGate ==
    /\ [](~session_state.logged_in => rendered = "login_page")
    /\ [][~session_state.logged_in => defects' = defects]_vars
    /\ [][(~session_state.logged_in /\ session_state'.logged_in)
            => /\ form'.name = "login"
               /\ form'.u \in DOMAIN users
               /\ users[form'.u].password = sha256(form'.p)
               /\ session_state'.role = users[form'.u].role
               /\ session_state'.fullname = users[form'.u].full_name]_vars
    /\ [][(session_state.logged_in /\ ~session_state'.logged_in)
            => /\ session_state' = LoggedOut
               /\ defects' = <<>>
               /\ rendered' = "login_page"]_vars

C23_Witness ==
    /\ ~session_state.logged_in
    /\ form.name = "login" /\ form.u = "u1" /\ form.p = "inspect"
    /\ "u1" \in DOMAIN users
    /\ Len(reports) > 0
    /\ defects = <<>>

\* C24: a run that called add_new_user with a username already in the table
\* got False and left the table as it was; with a new username it got True
\* and the table gained that username and nothing else changed.
C24_AddUserDuplicate ==
    [][(form'.name = "add_user" /\ db_ret' # "")
         => IF form'.u \in DOMAIN users
            THEN db_ret' = "False" /\ users' = users
            ELSE /\ db_ret' = "True"
                 /\ DOMAIN users' = DOMAIN users \cup {form'.u}
                 /\ \A u \in DOMAIN users : users'[u] = users[u]]_vars

C24_Witness ==
    /\ form.name = "add_user" /\ form.u = "u2"
    /\ db_ret = "False"
    /\ users["u2"].role = "admin"

\* C25: whenever the login page is rendered the row of 'admin' is in the
\* users table with the hash of 'inspect', so check_login('admin', 'inspect')
\* finds it, whatever users were created and deleted.
C25_DefaultAdmin ==
    rendered = "login_page"
       => /\ "admin" \in DOMAIN users
          /\ users["admin"].password = sha256("inspect")
          /\ check_login("admin", "inspect") # NoUser

C25_Witness ==
    /\ rendered = "login_page"
    /\ DOMAIN users = {"admin", "u2"}
    /\ Len(reports) > 0 /\ reports[1].saved_by = "u1"

====
